---- MODULE Spec2Model ----
(***************************************************************************)
(* The streaming accumulator of mirascope: BaseStream.__iter__             *)
(* (mirascope/core/base/stream.py) folding a lazy chunk sequence into the  *)
(* stream object's attributes, and the final assembly of GroqStream        *)
(* (mirascope/core/groq/stream.py): _construct_message_param and           *)
(* construct_call_response.                                                *)
(*                                                                         *)
(* Strings are sequences of one-character strings, so that concatenation   *)
(* is \o and "Hel" + "lo" = "Hello" is something the model computes.       *)
(* An optional value is a sequence of length 0 (None) or 1 (the value).    *)
(*                                                                         *)
(* GroqStream derives from core/base/_stream.py, which is not among the    *)
(* sources; what that base class does per chunk with tool-call deltas,     *)
(* usage and finish reasons is modelled from the specification (sections   *)
(* 3 and 4.2) and marked so in the model map.                              *)
(*                                                                         *)
(* Further parts, each with a specification of its own over its own        *)
(* variable: two stream objects side by side (SpecTwo), OpenAIChat.extract *)
(* and its retries (SpecExtract), the Requests tool (SpecRequests), the    *)
(* OpenTelemetry handlers as their tests call them (SpecOtel), WandbPrompt *)
(* (SpecWandb), OpenAIChat.create and stream (SpecChat) and the async      *)
(* OpenAI call wrapper (SpecAsync).                                        *)
(***************************************************************************)
EXTENDS Integers, Sequences, FiniteSets, TLC

\* Bounds of the model.
MaxChunks == 3      \* chunks the underlying generator delivers at most
MaxPasses == 2      \* calls of BaseStream.__iter__ on one stream object

None == <<>>
Some(x) == <<x>>

\* ---------------------------------------------------------------- strings
Hel == <<"H", "e", "l">>
lo == <<"l", "o">>
Hello == <<"H", "e", "l", "l", "o">>
get_ == <<"g", "e", "t", "_">>
weather == <<"w", "e", "a", "t", "h", "e", "r">>
get_weather == <<"g", "e", "t", "_", "w", "e", "a", "t", "h", "e", "r">>
ArgsHead == <<"{", "\"", "c", "i", "t", "y", "\"", ":">>
ArgsTail == <<"\"", "N", "Y", "C", "\"", "}">>
ArgsWhole == <<"{", "\"", "c", "i", "t", "y", "\"", ":", "\"", "N", "Y", "C", "\"", "}">>
EmptyObject == <<"{", "}">>

\* ----------------------------------------------------------------- chunks
\* One tool-call delta of a chunk: the slot index, an optional id, and the
\* name and arguments fragments (the empty string when absent).
Delta(i, id, name, arguments) ==
    [index |-> i, id |-> id, name |-> name, arguments |-> arguments]

\* One chunk of the underlying generator, as BaseStream.__iter__ reads it:
\* chunk.content, chunk.cost, chunk.user_message_param; tool_calls, usage and
\* finish_reason are what the GroqStream base class reads.
Chunk(content, cost, ump, tool_calls, usage, finish_reason) ==
    [content |-> content, cost |-> cost, user_message_param |-> ump,
     tool_calls |-> tool_calls, usage |-> usage, finish_reason |-> finish_reason]

K_Hel == Chunk(Hel, None, Some("u1"), <<>>, None, None)
K_lo == Chunk(lo, None, Some("u1"), <<>>, None, None)
K_fin == Chunk(<<>>, Some(7), Some("u1"), <<>>, Some(<<3, 2>>), Some("stop"))
K_u5 == Chunk(<<>>, Some(5), Some("u2"), <<>>, Some(<<10, 5>>), None)
K_u8 == Chunk(<<>>, Some(8), None, <<>>, Some(<<10, 8>>), Some("length"))
K_get == Chunk(<<>>, None, Some("u1"),
               <<Delta(0, Some("call_0"), get_, <<>>)>>, None, None)
K_weather == Chunk(<<>>, None, Some("u1"),
                   <<Delta(0, None, weather, ArgsHead)>>, None, None)
K_nyc == Chunk(<<>>, None, Some("u1"),
               <<Delta(0, Some("call_9"), <<>>, ArgsTail)>>, None, Some("tool_calls"))
K_t2 == Chunk(<<>>, None, Some("u1"),
              <<Delta(2, Some("call_2"), <<"f">>, EmptyObject)>>, None, None)

\* The chunks the underlying generator may deliver.
ChunkPool == {K_Hel, K_lo, K_fin, K_u5, K_u8, K_get, K_weather, K_nyc, K_t2}

VARIABLES
    delivered,           \* the chunks __iter__ has consumed so far, in order
    pulled,              \* number of chunks self.stream has yielded so far
    srcState,            \* self.stream: "live", "exhausted" or "failed"
    iterState,           \* the generator made by __iter__: "idle", "created",
                         \* "suspended", "finished", "raised", "closed"
    content,             \* the local `content` of the running __iter__ frame
    passStart,           \* Len(delivered) when the current __iter__ began
    passes,              \* number of __iter__ calls so far
    cost,                \* self.cost
    user_message_param,  \* self.user_message_param
    message_param,       \* self.message_param (None until assigned)
    toolCallSlots,       \* tool-call slots in first-seen order
    input_tokens,        \* self.input_tokens
    output_tokens,       \* self.output_tokens
    finish_reasons,      \* self.finish_reasons
    outcome,             \* what the caller's last call returned or raised
    response,            \* the last response construct_call_response returned
    streams,             \* two further BaseStream objects, each with its own
                         \* chunk source (used by SpecTwo)
    ex,                  \* one call of OpenAIChat.extract (used by SpecExtract)
    rq,                  \* one Requests tool and its calls (used by SpecRequests)
    ot,                  \* one span and the OpenTelemetry handler calls on it (used by SpecOtel)
    wb,                  \* one WandbPrompt, the parent trace and the traced calls (used by SpecWandb)
    chat,                \* one OpenAIChat object, its stream generator and the API requests (used by SpecChat)
    ac                   \* one call of the async OpenAI call wrapper and the clock (used by SpecAsync)

\* The state of the one stream object of Spec.
single == <<delivered, pulled, srcState, iterState, content, passStart, passes,
            cost, user_message_param, message_param, toolCallSlots,
            input_tokens, output_tokens, finish_reasons, outcome, response>>

vars == <<single, streams, ex, rq, ot, wb, chat, ac>>

\* What the actions of one part of the model leave unchanged: the state of
\* the other parts.
otherThanSingle == <<streams, ex, rq, ot, wb, chat, ac>>
otherThanStreams == <<single, ex, rq, ot, wb, chat, ac>>
otherThanEx == <<single, streams, rq, ot, wb, chat, ac>>
otherThanRq == <<single, streams, ex, ot, wb, chat, ac>>
otherThanOt == <<single, streams, ex, rq, wb, chat, ac>>
otherThanWb == <<single, streams, ex, rq, ot, chat, ac>>
otherThanChat == <<single, streams, ex, rq, ot, wb, ac>>
otherThanAc == <<single, streams, ex, rq, ot, wb, chat>>

attrs == <<cost, user_message_param, message_param, toolCallSlots,
           input_tokens, output_tokens, finish_reasons>>

\* The attributes of a BaseStream object that hold accumulated state. The
\* accumulated text is not among them: it is a local of __iter__.
Attributes ==
    [cost |-> cost, user_message_param |-> user_message_param,
     message_param |-> message_param]


\* ------------------------------------------------ BaseStream.__iter__, per chunk
\* self.user_message_param = chunk.user_message_param
UpdateUserMessageParam(old, chunk) == chunk.user_message_param

\* A bug `content = chunk.content` would keep only the last chunk's text.
AppendContent_Assign(c, chunk) == chunk.content

\* content += chunk.content
AppendContent(c, chunk) == c \o chunk.content

\* A bug dropping the `is not None` test would let a chunk without a cost
\* erase the recorded one.
UpdateCost_Unguarded(old, chunk) == chunk.cost

\* if chunk.cost is not None: self.cost = chunk.cost
UpdateCost(old, chunk) == IF chunk.cost # None THEN chunk.cost ELSE old

\* The local `content` as the frame holds it: `content = ""` runs when the
\* generator body starts, that is at the first next() of a created generator.
FrameContent == IF iterState = "created" THEN <<>> ELSE content[1]

\* ------------------------------------ the GroqStream base class, per chunk
\* Look up the slot of a delta's index.
SlotAt(slots, i) == {k \in 1..Len(slots) : slots[k].index = i}

\* A bug letting every id that arrives replace the recorded one.
ApplyDelta_LastId(slots, d) ==
    IF SlotAt(slots, d.index) = {}
    THEN Append(slots, [index |-> d.index, id |-> d.id, name |-> d.name,
                        arguments |-> d.arguments])
    ELSE LET k == CHOOSE j \in SlotAt(slots, d.index) : TRUE
         IN  [slots EXCEPT ![k] =
                 [index |-> @.index,
                  id |-> IF d.id # None THEN d.id ELSE @.id,
                  name |-> @.name \o d.name,
                  arguments |-> @.arguments \o d.arguments]]

\* One delta: look up or create the slot of its index (creation appends, which
\* keeps first-seen order), append the name and arguments fragments, and
\* record the id the first time one appears.
ApplyDelta(slots, d) ==
    IF SlotAt(slots, d.index) = {}
    THEN Append(slots, [index |-> d.index, id |-> d.id, name |-> d.name,
                        arguments |-> d.arguments])
    ELSE LET k == CHOOSE j \in SlotAt(slots, d.index) : TRUE
         IN  [slots EXCEPT ![k] =
                 [index |-> @.index,
                  id |-> IF @.id = None THEN d.id ELSE @.id,
                  name |-> @.name \o d.name,
                  arguments |-> @.arguments \o d.arguments]]

RECURSIVE UpdateSlots(_, _)
UpdateSlots(slots, deltas) ==
    IF deltas = <<>> THEN slots
    ELSE UpdateSlots(ApplyDelta(slots, Head(deltas)), Tail(deltas))

\* Usage is overwritten by a chunk that carries it.
UpdateInputTokens(old, chunk) ==
    IF chunk.usage # None THEN Some(chunk.usage[1][1]) ELSE old

UpdateOutputTokens(old, chunk) ==
    IF chunk.usage # None THEN Some(chunk.usage[1][2]) ELSE old

\* A finish reason is appended when the chunk carries one.
UpdateFinishReasons(old, chunk) ==
    IF chunk.finish_reason # None THEN Append(old, chunk.finish_reason[1]) ELSE old

\* The finished tool-call list, one entry per slot, in slot order.
Materialize(slots) ==
    [k \in 1..Len(slots) |->
        [id |-> slots[k].id, type |-> "function", name |-> slots[k].name,
         arguments |-> slots[k].arguments]]

\* -------------------------------------------------------- final assembly
\* A bug never setting the tool_calls key.
construct_message_param_NoToolCalls(tool_calls, c) ==
    [role |-> "assistant", content |-> c]

\* GroqStream._construct_message_param: role and content always, the
\* tool_calls key only for a non-empty list. The content is a `str | None`:
\* an optional string here.
construct_message_param(tool_calls, c) ==
    IF tool_calls # <<>>
    THEN [role |-> "assistant", content |-> c, tool_calls |-> tool_calls]
    ELSE [role |-> "assistant", content |-> c]

\* The end of BaseStream.__iter__: the message param built from the local
\* content once the for loop has ended. The local is always a string, the
\* empty string when no chunk carried text.
AssembleMessageParam(c, slots) ==
    construct_message_param(Materialize(slots), Some(c))

\* A bug putting the assembly in a `finally:` block would assemble a message
\* when the generator is closed early.
MessageParamOnClose_Finally(old, c, slots) == Some(AssembleMessageParam(c, slots))

\* What closing a suspended generator leaves in self.message_param: the
\* assembly is after the loop, not in a finally block, so nothing is assigned.
MessageParamOnClose(old, c, slots) == old

\* dict.get(key, default)
Get(d, key, default) == IF key \in DOMAIN d THEN d[key] ELSE default

\* A bug testing the truth of the content instead of `is None` would refuse a
\* consumed stream whose content is empty.
BuildKinds_Truthiness(mp) ==
    IF mp = None \/ mp[1].content \in {None, Some(<<>>)}
    THEN {"ValueError", "AttributeError"}
    ELSE {"response"}

\* construct_call_response, the guard: the kinds of outcome for a given
\* self.message_param. The guard raises ValueError for None; an attribute that
\* was never assigned (base/stream.py only annotates it) raises AttributeError
\* on the same line.
BuildKinds(mp) == IF mp = None THEN {"ValueError", "AttributeError"} ELSE {"response"}

\* A bug building the tool-call list of the response back to front.
ResponseMessage_Reversed(mp) ==
    LET calls == Get(mp, "tool_calls", <<>>)
    IN  [role |-> mp.role, content |-> Get(mp, "content", Some(<<>>)),
         tool_calls |-> [k \in 1..Len(calls) |-> calls[Len(calls) + 1 - k]]]

\* construct_call_response: the message of the completion.
ResponseMessage(mp) ==
    [role |-> mp.role, content |-> Get(mp, "content", Some(<<>>)),
     tool_calls |-> Get(mp, "tool_calls", <<>>)]

\* A bug reading the most recent finish reason instead of the first.
ResponseFinishReason_Last(reasons) ==
    IF reasons # <<>> /\ reasons[Len(reasons)] # "" THEN reasons[Len(reasons)]
    ELSE "stop"

\* construct_call_response: the finish reason of the single choice.
ResponseFinishReason(reasons) ==
    IF reasons # <<>> /\ reasons[1] # "" THEN reasons[1] ELSE "stop"

\* construct_call_response: the GroqCallResponse.
CallResponse(mp, reasons, ump) ==
    [message |-> ResponseMessage(mp), finish_reason |-> ResponseFinishReason(reasons),
     user_message_param |-> ump]

\* ------------------------------------------------------------------ state
\* The stream objects of SpecTwo.
Instances == {1, 2}

\* BaseStream.__init__ and the class-level defaults: cost and
\* user_message_param are None, message_param is not assigned, no output
\* parser unless one is passed, and no iteration has started. `yielded` is
\* what the iterator has handed to its consumer.
NewStream ==
    [delivered |-> <<>>, iterState |-> "idle", content |-> None,
     cost |-> None, user_message_param |-> None, message_param |-> None,
     output_parser |-> None, yielded |-> <<>>]

\* The output parser each of the two objects is constructed with: the first
\* with none, the second with a parser.
OutputParsers == <<None, Some("redact")>>

\* Before OpenAIChat.extract is called.
NewExtract ==
    [pc |-> "idle", retries0 |-> 0, retries |-> 0, kwargs |-> {},
     calls |-> <<>>, completions |-> <<>>, result |-> None, error |-> None]

\* Before a Requests tool is constructed.
NoRequests ==
    [pc |-> "new", kwargs |-> None, config |-> None, tool |-> None,
     timeout |-> None,
     sent |-> <<>>, outcomes |-> <<>>, results |-> <<>>]

\* A span that has recorded nothing, and no handler called yet.
NoHandling ==
    [span |-> [set_attributes |-> <<>>, add_event |-> <<>>],
     handled |-> <<>>]

\* A parent trace without children, before a WandbPrompt is constructed.
NoPrompt ==
    [pc |-> "new", prompt |-> None, parent |-> [children |-> <<>>],
     traced |-> <<>>]

\* Before an OpenAIChat object is constructed.
NoChat ==
    [pc |-> "new", constructed |-> None, model |-> None, gen |-> None,
     calls |-> 0, requests |-> <<>>]

\* Before the decorated function is called; the clock reads 0.
NoAsyncCall ==
    [pc |-> "idle", clock |-> 0, log |-> <<>>, fn_args |-> None,
     messages |-> None, start_time |-> None, requests |-> <<>>,
     response |-> None, error |-> None]

Init ==
    /\ delivered = <<>>
    /\ pulled = 0
    /\ srcState = "live"
    /\ iterState = "idle"
    /\ content = None
    /\ passStart = 0
    /\ passes = 0
    /\ cost = None
    /\ user_message_param = None
    /\ message_param = None
    /\ toolCallSlots = <<>>
    /\ input_tokens = None
    /\ output_tokens = None
    /\ finish_reasons = <<>>
    /\ outcome = [op |-> "none", kind |-> "none"]
    /\ response = None
    /\ streams = [i \in Instances |->
                    [NewStream EXCEPT !.output_parser = OutputParsers[i]]]
    /\ ex = NewExtract
    /\ rq = NoRequests
    /\ ot = NoHandling
    /\ wb = NoPrompt
    /\ chat = NoChat
    /\ ac = NoAsyncCall

Running == iterState \in {"created", "suspended"}

\* A bug wrapping the loop body in `try: ... except Exception: continue`
\* would keep the generator going and hide the error from the caller.
Propagate_Swallowed(err) == [iterState |-> "suspended", kind |-> "yield"]

\* __iter__ has no try/except: an error raised while a chunk is obtained or
\* processed ends the generator and reaches the caller as it was raised.
Propagate(err) == [iterState |-> "raised", kind |-> err]

\* iter(stream): a new generator of __iter__; its body has not started.
Iter ==
    /\ ~Running
    /\ passes < MaxPasses
    /\ iterState' = "created"
    /\ passes' = passes + 1
    /\ passStart' = Len(delivered)
    /\ content' = None
    /\ outcome' = [op |-> "iter", kind |-> "generator"]
    /\ UNCHANGED <<delivered, pulled, srcState, response>>
    /\ UNCHANGED attrs
    /\ UNCHANGED otherThanSingle

\* next(it) when self.stream yields chunk c: one turn of the for loop, up to
\* the yield.
NextChunk(c) ==
    /\ Running
    /\ srcState = "live"
    /\ pulled < MaxChunks
    /\ pulled' = pulled + 1
    /\ delivered' = Append(delivered, c)
    /\ user_message_param' = UpdateUserMessageParam(user_message_param, c)
    /\ content' = Some(AppendContent(FrameContent, c))
    /\ cost' = UpdateCost(cost, c)
    /\ toolCallSlots' = UpdateSlots(toolCallSlots, c.tool_calls)
    /\ input_tokens' = UpdateInputTokens(input_tokens, c)
    /\ output_tokens' = UpdateOutputTokens(output_tokens, c)
    /\ finish_reasons' = UpdateFinishReasons(finish_reasons, c)
    /\ iterState' = "suspended"
    /\ outcome' = [op |-> "next", kind |-> "yield"]
    /\ UNCHANGED <<srcState, passStart, passes, message_param, response>>
    /\ UNCHANGED otherThanSingle

\* next(it) when self.stream is at its end (or already finished): the for
\* loop ends, the message param is assembled and the generator returns.
NextStop ==
    /\ Running
    /\ srcState' = IF srcState = "live" THEN "exhausted" ELSE srcState
    /\ message_param' = Some(AssembleMessageParam(FrameContent, toolCallSlots))
    /\ iterState' = "finished"
    /\ content' = None
    /\ outcome' = [op |-> "next", kind |-> "StopIteration"]
    /\ UNCHANGED <<delivered, pulled, passStart, passes, cost, user_message_param,
                   toolCallSlots, input_tokens, output_tokens, finish_reasons,
                   response>>
    /\ UNCHANGED otherThanSingle

\* next(it) when self.stream raises: nothing catches it, the frame unwinds
\* and the error reaches the caller.
NextRaise ==
    /\ Running
    /\ srcState = "live"
    /\ srcState' = "failed"
    /\ iterState' = Propagate("TransportError").iterState
    /\ content' = (IF iterState' = "raised" THEN None ELSE Some(FrameContent))
    /\ outcome' = [op |-> "next", kind |-> Propagate("TransportError").kind]
    /\ UNCHANGED <<delivered, pulled, passStart, passes, response>>
    /\ UNCHANGED attrs
    /\ UNCHANGED otherThanSingle

\* next(it) when self.stream yields a chunk that lacks the required shape:
\* the first read of the chunk (chunk.user_message_param) raises before
\* anything is stored, and the error reaches the caller. self.stream itself
\* has not failed.
NextMalformed ==
    /\ Running
    /\ srcState = "live"
    /\ pulled < MaxChunks
    /\ pulled' = pulled + 1
    /\ iterState' = Propagate("MalformedChunkError").iterState
    /\ content' = (IF iterState' = "raised" THEN None ELSE Some(FrameContent))
    /\ outcome' = [op |-> "next", kind |-> Propagate("MalformedChunkError").kind]
    /\ UNCHANGED <<delivered, srcState, passStart, passes, response>>
    /\ UNCHANGED attrs
    /\ UNCHANGED otherThanSingle

\* it.close(), or dropping the iterator: GeneratorExit at the yield.
Close ==
    /\ Running
    /\ iterState' = "closed"
    /\ message_param' = MessageParamOnClose(message_param, FrameContent, toolCallSlots)
    /\ content' = None
    /\ outcome' = [op |-> "close", kind |-> "closed"]
    /\ UNCHANGED <<delivered, pulled, srcState, passStart, passes, cost,
                   user_message_param, toolCallSlots, input_tokens,
                   output_tokens, finish_reasons, response>>
    /\ UNCHANGED otherThanSingle

\* A bug reading the message with dict.pop instead of dict.get would take the
\* tool calls out of self.message_param at the first call.
Build_Pop ==
    /\ \E k \in BuildKinds(message_param) :
          /\ outcome' = [op |-> "build", kind |-> k]
          /\ response' = IF k = "response"
                         THEN Some(CallResponse(message_param[1], finish_reasons,
                                                user_message_param))
                         ELSE response
          /\ message_param' = IF k = "response"
                              THEN Some([role |-> message_param[1].role,
                                         content |-> message_param[1].content])
                              ELSE message_param
    /\ UNCHANGED <<delivered, pulled, srcState, iterState, content, passStart,
                   passes, cost, user_message_param, toolCallSlots,
                   input_tokens, output_tokens, finish_reasons>>
    /\ UNCHANGED otherThanSingle

\* stream.construct_call_response()
Build ==
    /\ \E k \in BuildKinds(message_param) :
          /\ outcome' = [op |-> "build", kind |-> k]
          /\ response' = IF k = "response"
                         THEN Some(CallResponse(message_param[1], finish_reasons,
                                                user_message_param))
                         ELSE response
    /\ UNCHANGED <<delivered, pulled, srcState, iterState, content, passStart, passes>>
    /\ UNCHANGED attrs
    /\ UNCHANGED otherThanSingle

Next ==
    \/ Iter
    \/ \E c \in ChunkPool : NextChunk(c)
    \/ NextStop
    \/ NextRaise
    \/ NextMalformed
    \/ Close
    \/ Build

Spec == Init /\ [][Next]_vars


\* ------------------------------------------------- two stream objects
\* Two BaseStream objects, each constructed over its own generator, consumed
\* by one thread in any interleaving of their next() calls.
MaxChunksTwo == 2   \* chunks either generator delivers at most

\* The chunks the two generators may yield: text, costs and user messages
\* that differ from chunk to chunk.
TwoPool == {K_Hel, K_lo, K_u5, K_u8}

\* The local `content` of the generator frame of one stream object.
FrameContentOf(st) == IF st.iterState = "created" THEN <<>> ELSE st.content[1]

\* A bug assigning cost and user_message_param on the class, where the
\* defaults are declared: every object then reads the value last assigned
\* through any of them.
SelfAssign_OnClass(ss, i, new) ==
    [j \in DOMAIN ss |->
        IF j = i THEN new
        ELSE [ss[j] EXCEPT !.cost = new.cost,
                           !.user_message_param = new.user_message_param]]

\* `self.x = ...`: an assignment through self creates or rebinds the
\* attribute of that one object; the class-level defaults are only read.
SelfAssign(ss, i, new) == [ss EXCEPT ![i] = new]

\* self.output_parser(chunk): the parser of the model returns an object of
\* its own that also has a content and a cost, neither the chunk's.
Parse(parser, chunk) ==
    [parsed_by |-> parser, content |-> <<"*">>, cost |-> Some(0),
     user_message_param |-> None]

\* The first item of the yielded pair: the parser's output when a parser is
\* set, else the chunk.
YieldItem(parser, chunk) ==
    IF parser # None THEN Parse(parser[1], chunk) ELSE chunk

\* A bug running the parser at the top of the loop body.
AccumulatedFrom_Parsed(parser, chunk) == YieldItem(parser, chunk)

\* What the loop body reads user_message_param, content and cost from: the
\* chunk of the underlying sequence, since the name `chunk` is rebound to
\* the parser's output only after them.
AccumulatedFrom(parser, chunk) == chunk

\* iter(stream_i): a generator object whose body has not started.
TwoIter(i) ==
    /\ streams[i].iterState = "idle"
    /\ streams' = [streams EXCEPT ![i].iterState = "created"]
    /\ UNCHANGED otherThanStreams

\* next() on stream i while its generator yields chunk c.
TwoNextChunk(i, c) ==
    LET st == streams[i]
        read == AccumulatedFrom(st.output_parser, c)
        new == [st EXCEPT
                  !.delivered = Append(@, c),
                  !.iterState = "suspended",
                  !.user_message_param = UpdateUserMessageParam(@, read),
                  !.content = Some(AppendContent(FrameContentOf(st), read)),
                  !.cost = UpdateCost(@, read),
                  !.yielded = Append(@, <<YieldItem(st.output_parser, c), None>>)]
    IN  /\ st.iterState \in {"created", "suspended"}
        /\ Len(st.delivered) < MaxChunksTwo
        /\ streams' = SelfAssign(streams, i, new)
        /\ UNCHANGED otherThanStreams

\* next() on stream i while its generator is exhausted: the loop ends and
\* the message param is assembled.
TwoNextStop(i) ==
    LET st == streams[i]
        new == [st EXCEPT
                  !.iterState = "finished",
                  !.content = None,
                  !.message_param =
                      Some(AssembleMessageParam(FrameContentOf(st), <<>>))]
    IN  /\ st.iterState \in {"created", "suspended"}
        /\ streams' = SelfAssign(streams, i, new)
        /\ UNCHANGED otherThanStreams

NextTwo ==
    \E i \in Instances :
        \/ TwoIter(i)
        \/ \E c \in TwoPool : TwoNextChunk(i, c)
        \/ TwoNextStop(i)

SpecTwo == Init /\ [][NextTwo]_vars


\* ------------------------------------------------- OpenAIChat.extract
\* One call extract(schema, prompt, retries, **kwargs). The schema has one
\* required field, `title`; the API answers each create call with a
\* completion or with an error.
MaxRetries == 2     \* the largest `retries` argument

\* The fields the schema requires.
SchemaFields == {"title"}

\* convert_base_model_to_openai_tool(schema): the tool named after the schema.
SchemaTool == [name |-> "Book", fields |-> SchemaFields]

\* The completions the API may return: without a tool call, with arguments
\* that fit the schema, with arguments that miss the required field.
Q_none == [tool |-> None]
Q_dune == [tool |-> Some([title |-> "Dune"])]
Q_emma == [tool |-> Some([title |-> "Emma"])]
Q_name == [tool |-> Some([name |-> "Dune"])]
Q_year == [tool |-> Some([year |-> "1965"])]
CompletionPool == {Q_none, Q_dune, Q_emma, Q_name, Q_year}

\* The keyword arguments a caller may pass on to the API call.
KwargsPool == {{}, {"temperature"}}

\* The arguments of self.create as extract passes them.
CreateCall(prompt, tool, kwargs) ==
    [prompt |-> prompt, tools |-> <<tool>>,
     tool_choice |-> [type |-> "function", function |-> tool.name],
     kwargs |-> kwargs]

\* schema(**completion.tool.model_dump()): `completion.tool` is None without
\* a tool call, and None has no model_dump; the schema rejects arguments
\* that miss a required field.
Validate(completion) ==
    IF completion.tool = None
    THEN [ok |-> FALSE, error |-> [type |-> "AttributeError", args |-> None]]
    ELSE IF SchemaFields \subseteq DOMAIN completion.tool[1]
    THEN [ok |-> TRUE,
          value |-> [f \in SchemaFields |-> completion.tool[1][f]]]
    ELSE [ok |-> FALSE,
          error |-> [type |-> "ValidationError", args |-> completion.tool]]

\* A bug keeping the first completion on the object and validating it again
\* on every retry.
TryCompletion_First(completions) == completions[1]

\* The local `completion` of the innermost extract frame: what its own
\* create call returned.
TryCompletion(completions) == completions[Len(completions)]

\* A bug passing `retries` on unchanged.
RetriesOfRetry_Same(retries) == retries

\* self.extract(schema, prompt, retries - 1)
RetriesOfRetry(retries) == retries - 1

\* extract is called: the tool is built and the first create call is made,
\* with the caller's keyword arguments.
ExtractCall(n, kw) ==
    /\ ex.pc = "idle"
    /\ ex' = [ex EXCEPT !.pc = "creating", !.retries0 = n, !.retries = n,
                        !.kwargs = kw,
                        !.calls = <<CreateCall("prompt", SchemaTool, kw)>>]
    /\ UNCHANGED otherThanEx

\* The pending create call returns completion q. The schema instance is
\* returned if it validates; else, with retries left, extract calls itself,
\* which makes the next create call (without the keyword arguments); else
\* the error is re-raised. An error of the nested call leaves the except
\* block it was called from, so no outer frame handles it again.
CreateReturns(q) ==
    LET completions == Append(ex.completions, q)
        v == Validate(TryCompletion(completions))
    IN  /\ ex.pc = "creating"
        /\ Len(ex.calls) <= MaxRetries + 2
        /\ ex' =
              IF v.ok
              THEN [ex EXCEPT !.pc = "returned", !.completions = completions,
                              !.result = Some(v.value)]
              ELSE IF ex.retries > 0
              THEN [ex EXCEPT !.completions = completions,
                              !.retries = RetriesOfRetry(@),
                              !.calls = Append(@, CreateCall("prompt", SchemaTool, {}))]
              ELSE [ex EXCEPT !.pc = "raised", !.completions = completions,
                              !.error = Some(v.error)]
        /\ UNCHANGED otherThanEx

\* The pending create call raises an OpenAIError: it is raised outside the
\* try block and leaves extract.
CreateRaises ==
    /\ ex.pc = "creating"
    /\ ex' = [ex EXCEPT !.pc = "raised",
                        !.error = Some([type |-> "OpenAIError", args |-> None])]
    /\ UNCHANGED otherThanEx

NextExtract ==
    \/ \E n \in 0..MaxRetries : \E kw \in KwargsPool : ExtractCall(n, kw)
    \/ \E q \in CompletionPool : CreateReturns(q)
    \/ CreateRaises

SpecExtract == Init /\ [][NextExtract]_vars


\* ------------------------------------------------- Requests.call
\* One Requests tool, constructed from keyword arguments and a configuration,
\* and called a few times; the HTTP library answers each request with a
\* response or with an error.
MaxToolCalls == 2   \* calls of Requests.call on the tool

\* RequestsConfig.timeout, when not configured.
DefaultTimeout == 5

\* The keyword arguments of the constructor: url always, the others or not.
ToolKwargsPool ==
    {[url |-> u] : u \in {"https://example.com", "https://api.example.com/data"}}
    \cup {[url |-> "https://example.com", method |-> "POST",
            data |-> Some([key |-> "value"]),
            headers |-> Some([ContentType |-> "application/json"])],
          [url |-> "https://example.com", method |-> "DELETE"],
          [url |-> "https://api.example.com/data", method |-> "PUT",
            data |-> Some([name |-> "example"])],
          [url |-> "https://api.example.com/data",
            headers |-> Some([Authorization |-> "Bearer token"])]}

\* The configurations: the default one and RequestsConfig(timeout=10).
ConfigPool == {<<>>, [timeout |-> 10]}

\* The fields of the tool: the declared defaults where no argument is given.
ToolFields(kwargs) ==
    [url |-> kwargs.url,
     method |-> Get(kwargs, "method", "GET"),
     data |-> Get(kwargs, "data", None),
     headers |-> Get(kwargs, "headers", None)]

\* What the HTTP library does with one request: a response whose status is
\* fine, a response whose raise_for_status raises, or an error of the
\* request itself.
HttpOutcomes ==
    {[kind |-> "response", ok |-> TRUE, text |-> t] :
        t \in {<<"Test content">>, <<>>}}
    \cup {[kind |-> "response", ok |-> FALSE, text |-> <<"Not Found">>]}
    \cup {[kind |-> "error", type |-> e] :
        e \in {"requests.exceptions.ConnectionError",
               "requests.exceptions.Timeout", "Exception"}}

\* A bug passing the data as the form body.
RequestArgs_FormData(tool, timeout) ==
    [method |-> tool.method, url |-> tool.url, data |-> tool.data,
     headers |-> tool.headers, timeout |-> timeout]

\* The keyword arguments of requests.request.
RequestArgs(tool, timeout) ==
    [method |-> tool.method, url |-> tool.url, json |-> tool.data,
     headers |-> tool.headers, timeout |-> timeout]

\* The error the try block of call ends with, None when it returns.
RaisedInTry(o) ==
    IF o.kind = "error" THEN Some(o.type)
    ELSE IF ~o.ok THEN Some("requests.exceptions.HTTPError")
    ELSE None

\* f"{type(e)}: Failed to extract content from URL {self.url}", as the
\* sequence of its pieces.
FailureText(e, url) ==
    <<"<class '", e, "'>", ": ", "Failed to extract content from URL", " ", url>>

\* A bug catching only the errors of the requests library.
CallResult_RequestsErrorsOnly(tool, o) ==
    IF RaisedInTry(o) = None THEN [kind |-> "return", value |-> o.text]
    ELSE IF RaisedInTry(o)[1] = "Exception"
    THEN [kind |-> "raise", value |-> RaisedInTry(o)]
    ELSE [kind |-> "return", value |-> FailureText(RaisedInTry(o)[1], tool.url)]

\* What call returns: the text of the response, or the failure text when
\* anything in the try block raised an Exception.
CallResult(tool, o) ==
    IF RaisedInTry(o) = None THEN [kind |-> "return", value |-> o.text]
    ELSE [kind |-> "return", value |-> FailureText(RaisedInTry(o)[1], tool.url)]

\* Requests(**kwargs) with the configuration cfg.
RequestsNew(kwargs, cfg) ==
    /\ rq.pc = "new"
    /\ rq' = [rq EXCEPT !.pc = "ready", !.kwargs = Some(kwargs),
                        !.config = Some(cfg),
                        !.tool = Some(ToolFields(kwargs)),
                        !.timeout = Some(Get(cfg, "timeout", DefaultTimeout))]
    /\ UNCHANGED otherThanRq

\* tool.call() while the HTTP library answers with o.
RequestsCall(o) ==
    /\ rq.pc = "ready"
    /\ Len(rq.results) < MaxToolCalls
    /\ rq' = [rq EXCEPT
                 !.sent = Append(@, RequestArgs(rq.tool[1], rq.timeout[1])),
                 !.outcomes = Append(@, o),
                 !.results = Append(@, CallResult(rq.tool[1], o))]
    /\ UNCHANGED otherThanRq

NextRequests ==
    \/ \E kwargs \in ToolKwargsPool : \E cfg \in ConfigPool : RequestsNew(kwargs, cfg)
    \/ \E o \in HttpOutcomes : RequestsCall(o)

SpecRequests == Init /\ [][NextRequests]_vars


\* ------------------------------------------------- OpenTelemetry handlers
\* The handlers of mirascope.integrations.otel._utils as their tests call
\* them: with a result, the traced function and a span or None. The span
\* records the calls of set_attributes and add_event, as the mocks of the
\* tests do.
MaxHandled == 2     \* handler calls on the one span

\* The results the handlers are given, with the fields they read: the user
\* message param, the assistant message param (of a call response or a
\* consumed stream), the response model (of a base model or a structured
\* stream), and the model name. A dict is the sequence of its items.
UserContent == <<<<"role", "user">>, <<"content", "user_content">>>>
AssistantContent == <<<<"role", "assistant">>, <<"content", "assistant_content">>>>
ResultPool ==
    {[user_message_param |-> UserContent, message_param |-> AssistantContent,
      response_model |-> <<<<"bar", "baz">>>>, model |-> "foo-123"],
     [user_message_param |-> <<<<"role", "user">>, <<"content", "hi">>>>,
      message_param |-> <<<<"role", "assistant">>, <<"content", "">>>>,
      response_model |-> <<<<"bar", "">>>>, model |-> "gpt-4o"]}

HandlerKinds == {"call_response", "stream", "base_model", "structured_stream"}

\* json.dumps of a dict of strings, as the sequence of its pieces.
RECURSIVE JsonItems(_)
JsonItems(items) ==
    IF items = <<>> THEN <<>>
    ELSE <<"\"", items[1][1], "\"", ": ", "\"", items[1][2], "\"">>
         \o (IF Len(items) > 1 THEN <<", ">> ELSE <<>>)
         \o JsonItems(Tail(items))

JsonDumps(items) == <<"{">> \o JsonItems(items) \o <<"}">>

\* get_call_response_attributes / get_stream_attributes, reduced to the
\* response model entry.
GetAttributes(kind, result) == [gen_ai_response_model |-> result.model]

\* A bug leaving the flag of the sync handler in the async one.
HandlerAttributes_AlwaysSync(kind, isAsync, result) ==
    [gen_ai_response_model |-> result.model, async |-> FALSE]

\* The attributes a handler sets: those of the result and the "async" entry.
HandlerAttributes(kind, isAsync, result) ==
    [gen_ai_response_model |-> GetAttributes(kind, result).gen_ai_response_model,
     async |-> isAsync]

\* The text of the completion event: the JSON of the assistant message
\* param for a call response or a stream, the JSON of the response model for
\* a base model or a structured stream.
CompletionText(kind, result) ==
    IF kind \in {"call_response", "stream"}
    THEN JsonDumps(result.message_param)
    ELSE JsonDumps(result.response_model)

\* A bug adding the completion event before the prompt event.
EventsOf_CompletionFirst(kind, result) ==
    <<[name |-> "gen_ai.content.completion",
       attributes |-> [gen_ai_completion |-> CompletionText(kind, result)]],
      [name |-> "gen_ai.content.prompt",
       attributes |-> [gen_ai_prompt |-> JsonDumps(result.user_message_param)]]>>

\* set_call_response_event_attributes / set_stream_event_attributes and the
\* event part of handle_base_model / handle_structured_stream: the events
\* added to the span, in order.
EventsOf(kind, result) ==
    <<[name |-> "gen_ai.content.prompt",
       attributes |-> [gen_ai_prompt |-> JsonDumps(result.user_message_param)]],
      [name |-> "gen_ai.content.completion",
       attributes |-> [gen_ai_completion |-> CompletionText(kind, result)]]>>

\* handle_<kind>(result, fn, span) or its async variant: with span None it
\* returns at once; else it sets the attributes and adds the events. The
\* result is only read: it is recorded as it is after the call.
Handle(kind, isAsync, result, withSpan) ==
    /\ Len(ot.handled) < MaxHandled
    /\ ot' = [span |->
                 IF withSpan
                 THEN [set_attributes |->
                           Append(ot.span.set_attributes,
                                  HandlerAttributes(kind, isAsync, result)),
                       add_event |->
                           ot.span.add_event \o EventsOf(kind, result)]
                 ELSE ot.span,
              handled |->
                 Append(ot.handled,
                        [kind |-> kind, async |-> isAsync, span |-> withSpan,
                         given |-> result, result |-> result,
                         returned |-> None])]
    /\ UNCHANGED otherThanOt

NextOtel ==
    \E kind \in HandlerKinds : \E isAsync \in BOOLEAN :
        \E result \in ResultPool : \E withSpan \in BOOLEAN :
            Handle(kind, isAsync, result, withSpan)

SpecOtel == Init /\ [][NextOtel]_vars


\* ------------------------------------------------- WandbPrompt
\* One WandbPrompt and one parent trace; create_with_trace and
\* extract_with_trace are called a few times, the completion or extraction
\* ending as the API and the schema decide.
MaxTraced == 2      \* calls of create_with_trace / extract_with_trace

\* The prompts: a span type, and call params with tools or without.
PromptPool ==
    {[name |-> "HiPrompt", span_type |-> t, tools |-> b] :
        t \in {"llm", "tool"}, b \in BOOLEAN}

\* An error, with the text str() gives for it.
Err(type, message) == [type |-> type, message |-> message]

\* The chat completions super().create() may return: without a tool, with a
\* tool whose function returns, with a tool whose function raises, and
\* without usage.
C_text == [tool |-> None, usage |-> Some(120), text |-> "Hi"]
C_tool ==
    [tool |-> Some([args |-> "coolness=10", fn |-> [ok |-> TRUE, value |-> "cool"]]),
     usage |-> Some(120), text |-> "tool"]
C_toolRaises ==
    [tool |-> Some([args |-> "coolness=x",
                    fn |-> [ok |-> FALSE, error |-> Err("ValueError", "bad coolness")]]),
     usage |-> Some(120), text |-> "tool"]
C_noUsage == [tool |-> None, usage |-> None, text |-> "Hi"]

\* What the try block gets from super().create(): a completion or an error.
CreateOutcomes ==
    {[raised |-> FALSE, value |-> [type |-> "OpenAIChatCompletion", completion |-> c]] :
        c \in {C_text, C_tool, C_toolRaises, C_noUsage}}
    \cup {[raised |-> TRUE, error |-> Err("OpenAIError", "context length exceeded")]}

\* What the try block gets from super().extract(): a BaseModel or a tool
\* carrying its completion, a value of a base type, or an error.
ExtractOutcomes ==
    {[raised |-> FALSE,
      value |-> [type |-> "BaseModel", dump |-> "title=Dune", completion |-> C_tool]],
     [raised |-> FALSE, value |-> [type |-> "BaseType", dump |-> "nonfiction"]],
     [raised |-> TRUE, error |-> Err("ValidationError", "1 validation error")]}

\* WandbPrompt._trace up to the Trace constructor: the outputs of the span
\* and the completion it reads usage, start and end time from, or the error
\* raised on the way. A value of a base type has no model_dump; a tool
\* function may raise; dict(None) is a TypeError.
TraceOutputs(prompt, value) ==
    IF value.type = "BaseType"
    THEN [ok |-> FALSE, error |-> Err("AttributeError", "no attribute 'model_dump'")]
    ELSE LET c == value.completion
             useTool == value.type = "OpenAIChatCompletion"
                        /\ c.tool # None /\ prompt.tools
         IN  IF useTool /\ ~c.tool[1].fn.ok
             THEN [ok |-> FALSE, error |-> c.tool[1].fn.error]
             ELSE IF c.usage = None
             THEN [ok |-> FALSE,
                   error |-> Err("TypeError", "'NoneType' object is not iterable")]
             ELSE [ok |-> TRUE,
                   outputs |->
                     IF useTool
                     THEN [assistant |-> c.tool[1].args,
                           tool_output |-> c.tool[1].fn.value]
                     ELSE IF value.type = "OpenAIChatCompletion"
                     THEN [assistant |-> c.text]
                     ELSE [assistant |-> value.dump],
                   usage |-> c.usage[1]]

\* The Trace that _trace builds.
SuccessSpan(prompt, out) ==
    [name |-> prompt.name, kind |-> prompt.span_type,
     status_code |-> "success", status_message |-> None,
     usage |-> Some(out.usage), outputs |-> Some(out.outputs)]

\* The Trace that _trace_error builds: the message is str(error).
ErrorSpan(prompt, error) ==
    [name |-> prompt.name, kind |-> prompt.span_type,
     status_code |-> "error", status_message |-> Some(error.message),
     usage |-> None, outputs |-> None]

\* A bug connecting the span to the parent before its outputs are built.
TraceChildren_AddFirst(prompt, value) ==
    IF TraceOutputs(prompt, value).ok
    THEN <<SuccessSpan(prompt, TraceOutputs(prompt, value))>>
    ELSE <<[name |-> prompt.name, kind |-> prompt.span_type,
            status_code |-> "success", status_message |-> None,
            usage |-> None, outputs |-> None]>>

\* The children _trace adds to the parent: parent.add_child(span) is its
\* last statement before the return, so none when it raises.
TraceChildren(prompt, value) ==
    IF TraceOutputs(prompt, value).ok
    THEN <<SuccessSpan(prompt, TraceOutputs(prompt, value))>>
    ELSE <<>>

\* The error the try block ends with, None when it returns.
RaisedInWithTrace(prompt, o) ==
    IF o.raised THEN Some(o.error)
    ELSE IF ~TraceOutputs(prompt, o.value).ok
    THEN Some(TraceOutputs(prompt, o.value).error)
    ELSE None

\* A bug catching only the errors of the API.
WithTraceResult_ApiErrorsOnly(prompt, o) ==
    IF RaisedInWithTrace(prompt, o) = None
    THEN [kind |-> "return", value |-> Some(o.value),
          trace |-> Some(SuccessSpan(prompt, TraceOutputs(prompt, o.value)))]
    ELSE IF o.raised
    THEN [kind |-> "return", value |-> None,
          trace |-> Some(ErrorSpan(prompt, RaisedInWithTrace(prompt, o)[1]))]
    ELSE [kind |-> "raise", value |-> None, trace |-> None]

\* What create_with_trace / extract_with_trace return: the result and its
\* trace, or None and the error trace when anything in the try block raised.
WithTraceResult(prompt, o) ==
    IF RaisedInWithTrace(prompt, o) = None
    THEN [kind |-> "return", value |-> Some(o.value),
          trace |-> Some(SuccessSpan(prompt, TraceOutputs(prompt, o.value)))]
    ELSE [kind |-> "return", value |-> None,
          trace |-> Some(ErrorSpan(prompt, RaisedInWithTrace(prompt, o)[1]))]

\* The children of the parent after the call: what _trace added, then what
\* _trace_error added.
ChildrenAfter(children, prompt, o) ==
    children
    \o (IF o.raised THEN <<>> ELSE TraceChildren(prompt, o.value))
    \o (IF WithTraceResult(prompt, o).kind = "return"
            /\ RaisedInWithTrace(prompt, o) # None
        THEN <<WithTraceResult(prompt, o).trace[1]>> ELSE <<>>)

\* WandbPrompt(span_type=..., ...)
WandbNew(prompt) ==
    /\ wb.pc = "new"
    /\ wb' = [wb EXCEPT !.pc = "ready", !.prompt = Some(prompt)]
    /\ UNCHANGED otherThanWb

\* The state after one call op(parent) whose completion or extraction ends
\* as o: the parent has its new child and the call is on record.
AfterWithTrace(op, o) ==
    [wb EXCEPT
       !.parent.children = ChildrenAfter(@, wb.prompt[1], o),
       !.traced = Append(@, [op |-> op, outcome |-> o,
                             result |-> WithTraceResult(wb.prompt[1], o)])]

\* prompt.create_with_trace(parent) while super().create() ends as o.
CreateWithTrace(o) ==
    /\ wb.pc = "ready"
    /\ Len(wb.traced) < MaxTraced
    /\ wb' = AfterWithTrace("create_with_trace", o)
    /\ UNCHANGED otherThanWb

\* prompt.extract_with_trace(schema, parent, retries) while super().extract()
\* ends as o.
ExtractWithTrace(o) ==
    /\ wb.pc = "ready"
    /\ Len(wb.traced) < MaxTraced
    /\ wb' = AfterWithTrace("extract_with_trace", o)
    /\ UNCHANGED otherThanWb

NextWandb ==
    \/ \E prompt \in PromptPool : WandbNew(prompt)
    \/ \E o \in CreateOutcomes : CreateWithTrace(o)
    \/ \E o \in ExtractOutcomes : ExtractWithTrace(o)

SpecWandb == Init /\ [][NextWandb]_vars


\* ------------------------------------------------- OpenAIChat.create / stream
\* One OpenAIChat object; create and stream are called with a Prompt
\* instance or a string, and with a `tools` argument or without. stream is a
\* generator function: its body runs at the first next().
MaxChatCalls == 2   \* calls of create and stream on the object

\* The model of the constructor when none is given.
DefaultModel == "gpt-3.5-turbo"

\* The prompts: Prompt instances with their call params, and a raw string.
ChatPromptPool ==
    {[isPrompt |-> TRUE, model |-> m, tools |-> t] :
        m \in {"gpt-4", "gpt-3.5-turbo-0125"}, t \in {None, Some(<<"PromptTool">>)}}
    \cup {[isPrompt |-> FALSE]}

\* The `tools` argument.
ToolsArgPool == {None, Some(<<"ArgTool">>)}

\* convert_tools_list_to_openai_tools: None stays None, each tool becomes an
\* OpenAITool type.
ConvertTools(tools) ==
    IF tools = None THEN None
    ELSE Some([k \in 1..Len(tools[1]) |-> [openai_tool |-> tools[1][k]]])

\* A bug keeping a model that was passed to the constructor.
ModelFor_ConstructorFirst(selfModel, prompt) ==
    IF prompt.isPrompt /\ selfModel = DefaultModel THEN prompt.model ELSE selfModel

\* self.model as the request uses it: assigned from the call params when the
\* prompt is a Prompt instance.
ModelFor(selfModel, prompt) ==
    IF prompt.isPrompt THEN prompt.model ELSE selfModel

\* `tools` as the request uses it: the tools of the call params when the
\* prompt is a Prompt instance that sets them.
ToolsFor(tools, prompt) ==
    IF prompt.isPrompt /\ prompt.tools # None THEN prompt.tools ELSE tools

\* The object after the body of create or stream has made its API request.
AfterRequest(op, prompt, tools, isStream) ==
    [chat EXCEPT
       !.model = Some(ModelFor(chat.model[1], prompt)),
       !.requests =
          Append(@, [op |-> op, prompt |-> prompt, tools_arg |-> tools,
                     model |-> ModelFor(chat.model[1], prompt),
                     stream |-> isStream,
                     tools |-> ConvertTools(ToolsFor(tools, prompt))])]

\* OpenAIChat(model=...)
ChatNew(model) ==
    /\ chat.pc = "new"
    /\ chat' = [chat EXCEPT !.pc = "ready", !.constructed = Some(model),
                            !.model = Some(model)]
    /\ UNCHANGED otherThanChat

\* model.create(prompt, tools)
ChatCreate(prompt, tools) ==
    /\ chat.pc = "ready"
    /\ chat.calls < MaxChatCalls
    /\ chat' = [AfterRequest("create", prompt, tools, FALSE)
                  EXCEPT !.calls = chat.calls + 1]
    /\ UNCHANGED otherThanChat

\* model.stream(prompt, tools): a generator object; nothing has run yet.
ChatStream(prompt, tools) ==
    /\ chat.pc = "ready"
    /\ chat.calls < MaxChatCalls
    /\ chat.gen = None
    /\ chat' = [chat EXCEPT !.calls = chat.calls + 1,
                            !.gen = Some([prompt |-> prompt, tools |-> tools])]
    /\ UNCHANGED otherThanChat

\* The first next() on the generator of stream: its body runs up to the
\* request and the first chunk.
ChatStreamStart ==
    /\ chat.gen # None
    /\ chat' = [AfterRequest("stream", chat.gen[1].prompt, chat.gen[1].tools, TRUE)
                  EXCEPT !.gen = None]
    /\ UNCHANGED otherThanChat

NextChat ==
    \/ \E model \in {DefaultModel, "gpt-4-turbo"} : ChatNew(model)
    \/ \E prompt \in ChatPromptPool : \E tools \in ToolsArgPool :
          \/ ChatCreate(prompt, tools)
          \/ ChatStream(prompt, tools)
    \/ ChatStreamStart

SpecChat == Init /\ [][NextChat]_vars


\* ------------------------------------------------- call_async_decorator
\* One call of inner_async, the coroutine the decorator returns. It is
\* suspended twice, awaiting the user function and awaiting the API; the
\* clock may advance at any time.
MaxClock == 3       \* the largest reading of the clock

\* The messages setup_call may return for the call.
UserMsg == [role |-> "user", content |-> "Recommend a book"]
SystemMsg == [role |-> "system", content |-> "You are a librarian"]
AssistantMsg == [role |-> "assistant", content |-> "Which genre?"]
MessagesPool ==
    {<<UserMsg>>, <<SystemMsg, UserMsg>>, <<UserMsg, AssistantMsg>>,
     <<SystemMsg>>, <<>>}

\* A bug taking the first message.
UserMessageParamOf_First(messages) ==
    IF messages[1].role = "user" THEN Some(messages[1]) ELSE None

\* messages[-1] if messages[-1]["role"] == "user" else None
UserMessageParamOf(messages) ==
    IF messages[Len(messages)].role = "user"
    THEN Some(messages[Len(messages)]) ELSE None

\* datetime.datetime.now(): the clock does not go back.
Tick ==
    /\ ac.clock < MaxClock
    /\ ac' = [ac EXCEPT !.clock = @ + 1]
    /\ UNCHANGED otherThanAc

\* inner_async(*args): the arguments are bound and the user function is
\* awaited.
AsyncCall(genre) ==
    /\ ac.pc = "idle"
    /\ ac' = [ac EXCEPT !.pc = "awaiting_fn",
                        !.fn_args = Some([genre |-> genre]),
                        !.log = Append(@, "fn")]
    /\ UNCHANGED otherThanAc

\* The user function returns: setup_call gives the messages, the client is
\* made, the start time is read and the completion request is issued.
FnReturns(messages) ==
    /\ ac.pc = "awaiting_fn"
    /\ ac' = [ac EXCEPT !.pc = "awaiting_api",
                        !.messages = Some(messages),
                        !.start_time = Some(ac.clock),
                        !.log = @ \o <<"setup_call", "create">>,
                        !.requests =
                           Append(@, [model |-> "gpt-4o", stream |-> FALSE,
                                      messages |-> messages,
                                      issued_at |-> ac.clock])]
    /\ UNCHANGED otherThanAc

\* The user function raises: the error leaves inner_async.
FnRaises ==
    /\ ac.pc = "awaiting_fn"
    /\ ac' = [ac EXCEPT !.pc = "raised", !.error = Some("fn error")]
    /\ UNCHANGED otherThanAc

\* The API answers: the call response is built, with the end time read now.
\* messages[-1] of an empty list is an IndexError.
ApiReturns(completion) ==
    /\ ac.pc = "awaiting_api"
    /\ ac' =
          IF ac.messages[1] = <<>>
          THEN [ac EXCEPT !.pc = "raised", !.error = Some("IndexError")]
          ELSE [ac EXCEPT
                  !.pc = "done",
                  !.response =
                     Some([response |-> completion,
                           fn_args |-> ac.fn_args[1],
                           messages |-> ac.messages[1],
                           user_message_param |-> UserMessageParamOf(ac.messages[1]),
                           start_time |-> ac.start_time[1],
                           end_time |-> ac.clock])]
    /\ UNCHANGED otherThanAc

\* The API call raises: the error leaves inner_async.
ApiRaises ==
    /\ ac.pc = "awaiting_api"
    /\ ac' = [ac EXCEPT !.pc = "raised", !.error = Some("OpenAIError")]
    /\ UNCHANGED otherThanAc

NextAsync ==
    \/ Tick
    \/ \E genre \in {"fantasy", "nonfiction"} : AsyncCall(genre)
    \/ \E messages \in MessagesPool : FnReturns(messages)
    \/ FnRaises
    \/ \E completion \in {"Dune", "Emma"} : ApiReturns(completion)
    \/ ApiRaises

SpecAsync == Init /\ [][NextAsync]_vars


\* ------------------------------------------- reference values of the claims
\* What the claims compare the state with, computed from the delivered chunks
\* alone.

\* The chunks the current __iter__ pass has consumed.
PassChunks == SubSeq(delivered, passStart + 1, Len(delivered))

RECURSIVE ConcatContent(_)
ConcatContent(chunks) ==
    IF chunks = <<>> THEN <<>>
    ELSE Head(chunks).content \o ConcatContent(Tail(chunks))

RECURSIVE AllDeltas(_)
AllDeltas(chunks) ==
    IF chunks = <<>> THEN <<>>
    ELSE Head(chunks).tool_calls \o AllDeltas(Tail(chunks))

RECURSIVE NameFragments(_, _)
NameFragments(deltas, i) ==
    IF deltas = <<>> THEN <<>>
    ELSE (IF Head(deltas).index = i THEN Head(deltas).name ELSE <<>>)
         \o NameFragments(Tail(deltas), i)

RECURSIVE ArgumentFragments(_, _)
ArgumentFragments(deltas, i) ==
    IF deltas = <<>> THEN <<>>
    ELSE (IF Head(deltas).index = i THEN Head(deltas).arguments ELSE <<>>)
         \o ArgumentFragments(Tail(deltas), i)

RECURSIVE FirstId(_, _)
FirstId(deltas, i) ==
    IF deltas = <<>> THEN None
    ELSE IF Head(deltas).index = i /\ Head(deltas).id # None THEN Head(deltas).id
    ELSE FirstId(Tail(deltas), i)

\* The slot indices in the order in which they first appear.
RECURSIVE FirstSeen(_)
FirstSeen(deltas) ==
    IF deltas = <<>> THEN <<>>
    ELSE LET before == FirstSeen(SubSeq(deltas, 1, Len(deltas) - 1))
             i == deltas[Len(deltas)].index
         IN  IF \E k \in 1..Len(before) : before[k] = i THEN before
             ELSE Append(before, i)

ExpectedToolCalls(chunks) ==
    LET ds == AllDeltas(chunks)
        fs == FirstSeen(ds)
    IN  [k \in 1..Len(fs) |->
            [id |-> FirstId(ds, fs[k]), type |-> "function",
             name |-> NameFragments(ds, fs[k]),
             arguments |-> ArgumentFragments(ds, fs[k])]]

RECURSIVE LastCost(_)
LastCost(chunks) ==
    IF chunks = <<>> THEN None
    ELSE IF chunks[Len(chunks)].cost # None THEN chunks[Len(chunks)].cost
    ELSE LastCost(SubSeq(chunks, 1, Len(chunks) - 1))

RECURSIVE LastUsage(_)
LastUsage(chunks) ==
    IF chunks = <<>> THEN None
    ELSE IF chunks[Len(chunks)].usage # None THEN chunks[Len(chunks)].usage
    ELSE LastUsage(SubSeq(chunks, 1, Len(chunks) - 1))

RECURSIVE FirstUserMessage(_)
FirstUserMessage(chunks) ==
    IF chunks = <<>> THEN None
    ELSE IF Head(chunks).user_message_param # None THEN Head(chunks).user_message_param
    ELSE FirstUserMessage(Tail(chunks))

\* The content a consumer can read from the stream object: an attribute
\* `content` if the object had one, else the content of the assembled message.
InspectableContent ==
    IF "content" \in DOMAIN Attributes THEN Some(Attributes.content)
    ELSE IF Attributes.message_param # None
         THEN Attributes.message_param[1].content
         ELSE None


\* ----------------------------------------------------------------- claims

\* C1: when a pass of __iter__ has consumed its chunk sequence to the end, the
\* content of the assembled assistant message is the concatenation, in
\* arrival order, of the content of the chunks that pass consumed (the empty
\* string for no chunk); "Hel", "lo" and a content-less chunk give "Hello".
C1_ContentIsConcatenation ==
    iterState = "finished" =>
        /\ message_param # None
        /\ message_param[1].role = "assistant"
        /\ message_param[1].content = Some(ConcatContent(PassChunks))

C1_Witness ==
    /\ iterState = "finished"
    /\ passStart = 0
    /\ delivered = <<K_Hel, K_lo, K_fin>>
    /\ message_param[1].content = Some(Hello)

EmptyStreamErrors == {"EmptyStreamError", "ValueError", "AttributeError"}

C6_Original ==
    (outcome.kind = "TransportError" /\ passes = 1) =>
        /\ iterState = "raised"
        /\ message_param = None
        /\ InspectableContent = Some(ConcatContent(delivered))

\* C7, as claimed: once the chunk sequence is exhausted no later operation
\* changes the assembled assistant message (and with it the accumulated
\* content), the cost or the user message.
C7_Original ==
    [][srcState = "exhausted" =>
          /\ message_param' = message_param
          /\ cost' = cost
          /\ user_message_param' = user_message_param]_vars

\* C8, as claimed: the user message is that of the first chunk that carried
\* one, at every point after that chunk.
C8_Original ==
    FirstUserMessage(delivered) # None =>
        user_message_param = FirstUserMessage(delivered)

C10_Original ==
    (iterState = "suspended" /\ passes = 1) =>
        /\ InspectableContent = Some(ConcatContent(delivered))
        /\ cost = LastCost(delivered)
        /\ user_message_param = delivered[Len(delivered)].user_message_param


\* The finish reasons the consumed chunks carried, in order.
RECURSIVE FinishReasonsOf(_)
FinishReasonsOf(chunks) ==
    IF chunks = <<>> THEN <<>>
    ELSE (IF Head(chunks).finish_reason # None THEN Head(chunks).finish_reason
          ELSE <<>>) \o FinishReasonsOf(Tail(chunks))

\* C11: the finish reason of the final response is the first finish reason
\* recorded during consumption when one was recorded, and "stop" otherwise.
C11_FirstFinishReasonOrStop ==
    response # None =>
        response[1].finish_reason
            = (IF FinishReasonsOf(delivered) = <<>> THEN "stop"
               ELSE FinishReasonsOf(delivered)[1])

C11_Witness ==
    /\ response # None
    /\ delivered = <<K_u8, K_Hel, K_fin>>
    /\ finish_reasons = <<"length", "stop">>
    /\ response[1].finish_reason = "length"

\* C12, as claimed: when the accumulated content is empty and there is no
\* tool-call slot, the content of the assembled assistant message (and of the
\* response built from it) is None and not the empty string.
C12_Original ==
    (iterState = "finished" /\ ConcatContent(PassChunks) = <<>>
        /\ toolCallSlots = <<>>) =>
        /\ message_param[1].content = None
        /\ response # None => response[1].message.content = None


\* C13: an error raised while a chunk is obtained (the source raises) or
\* processed (a malformed chunk) ends the iteration at that chunk and reaches
\* the caller as that error: no chunk is pulled without being either consumed
\* or reported, and once the generator has raised it consumes nothing more.
C13_ErrorsAbortAndPropagate ==
    [][/\ (pulled' # pulled /\ delivered' = delivered) =>
              (iterState' = "raised" /\ outcome'.kind = "MalformedChunkError")
       /\ (srcState = "live" /\ srcState' = "failed") =>
              (iterState' = "raised" /\ outcome'.kind = "TransportError")
       /\ iterState = "raised" => (delivered' = delivered /\ pulled' = pulled)]_vars

C13_Witness ==
    /\ iterState = "raised"
    /\ outcome.kind = "MalformedChunkError"
    /\ delivered = <<K_Hel, K_lo>>
    /\ pulled = 3
    /\ passes = 1
    /\ message_param = None


\* C14: construct_call_response is a pure projection of the accumulated
\* state: a call changes nothing of the stream object or of the iteration,
\* and a call that follows a call which returned a response returns an equal
\* response.
C14_BuildIsPureProjection ==
    [][outcome'.op = "build" =>
          /\ attrs' = attrs
          /\ <<delivered, pulled, srcState, iterState, content>>'
                 = <<delivered, pulled, srcState, iterState, content>>
          /\ (outcome.op = "build" /\ outcome.kind = "response") =>
                 (outcome'.kind = "response" /\ response' = response)]_vars

C14_Witness ==
    /\ outcome.op = "build"
    /\ outcome.kind = "response"
    /\ srcState = "exhausted"
    /\ delivered = <<K_get, K_weather, K_nyc>>
    /\ Len(response[1].message.tool_calls) = 1
    /\ response[1].message.tool_calls = message_param[1].tool_calls

IsPrefix(a, b) == Len(a) <= Len(b) /\ SubSeq(b, 1, Len(a)) = a

\* C15: across consume steps the content accumulated by an iteration and
\* each slot's name and arguments only grow by appending: the value before a
\* step is a prefix of the value after it, and no slot disappears or changes
\* its index.
C15_AppendOnly ==
    [][/\ (content # None /\ content' # None) => IsPrefix(content[1], content'[1])
       /\ Len(toolCallSlots) <= Len(toolCallSlots')
       /\ \A k \in 1..Len(toolCallSlots) :
             /\ toolCallSlots'[k].index = toolCallSlots[k].index
             /\ IsPrefix(toolCallSlots[k].name, toolCallSlots'[k].name)
             /\ IsPrefix(toolCallSlots[k].arguments, toolCallSlots'[k].arguments)]_vars

C15_Witness ==
    /\ iterState = "suspended"
    /\ delivered = <<K_Hel, K_get, K_weather>>
    /\ content = Some(Hel)
    /\ toolCallSlots[1].name = get_weather
    /\ toolCallSlots[1].arguments = ArgsHead

\* C16: the id of a slot is the first id that appeared for its index; an id
\* that arrives later for the same index is ignored.
C16_FirstIdWins ==
    /\ \A k \in 1..Len(toolCallSlots) :
          toolCallSlots[k].id
              = FirstId(AllDeltas(delivered), toolCallSlots[k].index)
    /\ message_param # None =>
          LET calls == Get(message_param[1], "tool_calls", <<>>)
          IN  \A k \in 1..Len(calls) : calls[k].id = toolCallSlots[k].id

C16_Witness ==
    /\ delivered = <<K_weather, K_nyc, K_get>>
    /\ Len(toolCallSlots) = 1
    /\ toolCallSlots[1].id = Some("call_9")
    /\ message_param # None
    /\ message_param[1].tool_calls[1].id = Some("call_9")

\* What one stream object holds after consuming `chunks` alone, with its
\* generator run to the end or not.
ConsumedAlone(chunks, finished) ==
    [cost |-> LastCost(chunks),
     user_message_param |->
        IF chunks = <<>> THEN None
        ELSE chunks[Len(chunks)].user_message_param,
     message_param |->
        IF finished
        THEN Some([role |-> "assistant", content |-> Some(ConcatContent(chunks))])
        ELSE None]

\* C17: stream objects share no mutable state. For two objects consumed in
\* any interleaving, the cost, the user message and the assembled message of
\* each are what its own chunk sequence gives when consumed alone.
C17_InstancesShareNoState ==
    \A i \in Instances :
        LET st == streams[i]
            alone == ConsumedAlone(st.delivered, st.iterState = "finished")
        IN  /\ st.cost = alone.cost
            /\ st.user_message_param = alone.user_message_param
            /\ st.message_param = alone.message_param

\* Stream 2 has finished "Hello" without a cost while stream 1 is still
\* suspended after a chunk with cost 5 and user message u2.
C17_Witness ==
    /\ streams[1].delivered = <<K_Hel, K_u5>>
    /\ streams[1].iterState = "suspended"
    /\ streams[1].cost = Some(5)
    /\ streams[1].user_message_param = Some("u2")
    /\ streams[2].delivered = <<K_Hel, K_lo>>
    /\ streams[2].iterState = "finished"
    /\ streams[2].cost = None
    /\ streams[2].user_message_param = Some("u1")
    /\ streams[2].message_param =
           Some([role |-> "assistant", content |-> Some(Hello)])

\* What extract does with one completion when it may not retry.
SingleAttempt(completion) ==
    IF Validate(completion).ok
    THEN [pc |-> "returned", result |-> Some(Validate(completion).value),
          error |-> None]
    ELSE [pc |-> "raised", result |-> None,
          error |-> Some(Validate(completion).error)]

\* The errors the except clause of extract handles.
ValidationErrors == {"AttributeError", "ValidationError"}

\* extract has ended by returning, or by raising an error of the validation.
EndedOnCompletion ==
    \/ ex.pc = "returned"
    \/ ex.pc = "raised" /\ ex.error[1].type \in ValidationErrors

\* C19: a retry reuses nothing of a failed attempt. Every attempt makes its
\* own create call with a request built from the prompt and the schema alone,
\* and the outcome of extract is the outcome of its last attempt taken by
\* itself: the earlier completions show in neither the result nor the error.
C19_RetryStartsFromScratch ==
    /\ \A k \in 1..Len(ex.calls) :
          /\ ex.calls[k].prompt = "prompt"
          /\ ex.calls[k].tools = <<SchemaTool>>
          /\ ex.calls[k].tool_choice = [type |-> "function", function |-> "Book"]
    /\ Len(ex.completions) <= Len(ex.calls)
    /\ ex.pc = "creating" => Len(ex.calls) = Len(ex.completions) + 1
    /\ EndedOnCompletion =>
          /\ Len(ex.calls) = Len(ex.completions)
          /\ LET last == SingleAttempt(ex.completions[Len(ex.completions)])
             IN  /\ ex.pc = last.pc
                 /\ ex.result = last.result
                 /\ ex.error = last.error

\* A first attempt without a tool call and a second with unfit arguments
\* failed; the third attempt returned "Emma".
C19_Witness ==
    /\ ex.pc = "returned"
    /\ ex.completions = <<Q_none, Q_name, Q_emma>>
    /\ Len(ex.calls) = 3
    /\ ex.result = Some([title |-> "Emma"])

\* C20: extract retries at most `retries` times on an AttributeError or a
\* ValidationError. It makes at most retries+1 create calls and has ended
\* once that many completions were validated; it returns the schema instance
\* of the first completion that validates; when every attempt failed it
\* raises the error of the last one after exactly retries+1 calls, so with
\* retries = 0 the first failure is raised at once.
C20_ExtractRetriesAtMost ==
    LET n == Len(ex.completions)
        failed(k) == ~Validate(ex.completions[k]).ok
    IN  /\ Len(ex.calls) <= ex.retries0 + 1
        /\ n = ex.retries0 + 1 => ex.pc \in {"returned", "raised"}
        /\ ex.pc = "creating" => \A k \in 1..n : failed(k)
        /\ ex.pc = "returned" =>
              /\ \A k \in 1..(n - 1) : failed(k)
              /\ ex.result = Some(Validate(ex.completions[n]).value)
        /\ (ex.pc = "raised" /\ ex.error[1].type \in ValidationErrors) =>
              /\ Len(ex.calls) = ex.retries0 + 1
              /\ n = ex.retries0 + 1
              /\ \A k \in 1..n : failed(k)
              /\ ex.error = Some(Validate(ex.completions[n]).error)

\* With retries = 2 three attempts failed and the error of the third, an
\* AttributeError, was raised.
C20_Witness ==
    /\ ex.pc = "raised"
    /\ ex.retries0 = 2
    /\ ex.completions = <<Q_name, Q_year, Q_none>>
    /\ Len(ex.calls) = 3
    /\ ex.error = Some([type |-> "AttributeError", args |-> None])

\* With retries = 0 a single failed attempt was raised.
C20_WitnessNoRetries ==
    /\ ex.pc = "raised"
    /\ ex.retries0 = 0
    /\ ex.completions = <<Q_year>>
    /\ Len(ex.calls) = 1
    /\ ex.error = Some([type |-> "ValidationError", args |-> Q_year.tool])

\* The string s holds the piece `part` directly followed by `rest`, with one
\* space between them.
HoldsFollowedBy(str, part, rest) ==
    \E k \in 1..(Len(str) - 2) :
        str[k] = part /\ str[k + 1] = " " /\ str[k + 2] = rest

\* C21: Requests.call never raises. Whenever the request or raise_for_status
\* raises, call returns a string that holds "Failed to extract content from
\* URL" followed by the URL, and the fields of the tool are as constructed.
C21_CallNeverRaises ==
    /\ \A k \in 1..Len(rq.results) :
          /\ rq.results[k].kind = "return"
          /\ RaisedInTry(rq.outcomes[k]) # None =>
                HoldsFollowedBy(rq.results[k].value,
                                "Failed to extract content from URL",
                                rq.kwargs[1].url)
    /\ rq.pc = "ready" => rq.tool = Some(ToolFields(rq.kwargs[1]))

\* A first call met a plain Exception of the request, a second a response
\* whose raise_for_status raised; both returned the failure text.
C21_Witness ==
    /\ Len(rq.results) = 2
    /\ rq.outcomes[1] = [kind |-> "error", type |-> "Exception"]
    /\ rq.outcomes[2] = [kind |-> "response", ok |-> FALSE, text |-> <<"Not Found">>]
    /\ rq.results[1].value =
          FailureText("Exception", rq.kwargs[1].url)
    /\ rq.results[2].value =
          FailureText("requests.exceptions.HTTPError", rq.kwargs[1].url)

WithSpan == SelectSeq(ot.handled, LAMBDA h : h.span)

\* C23: every OpenTelemetry handler returns None and records nothing when
\* the span is None; given a span it calls set_attributes exactly once, with
\* attributes whose "async" entry is FALSE for the sync handler and TRUE for
\* the async one.
C23_HandlersNeedSpan ==
    /\ \A k \in 1..Len(ot.handled) :
          ~ot.handled[k].span => ot.handled[k].returned = None
    /\ Len(ot.span.set_attributes) = Len(WithSpan)
    /\ Len(ot.span.add_event) = 2 * Len(WithSpan)
    /\ \A k \in 1..Len(WithSpan) :
          ot.span.set_attributes[k].async = WithSpan[k].async

\* A sync stream handler without a span, then an async base-model handler
\* with the span: one set_attributes call, with "async" TRUE.
C23_Witness ==
    /\ Len(ot.handled) = 2
    /\ ot.handled[1].kind = "stream" /\ ~ot.handled[1].async
    /\ ~ot.handled[1].span
    /\ ot.handled[2].kind = "base_model" /\ ot.handled[2].async
    /\ ot.handled[2].span
    /\ Len(ot.span.set_attributes) = 1
    /\ ot.span.set_attributes[1].async

\* C24: for a call response or a consumed stream the event setters add
\* exactly two events, in this order: "gen_ai.content.prompt" with the JSON of
\* the user message param, then "gen_ai.content.completion" with the JSON of
\* the assistant message param; the result is read and left as it was.
C24_PromptThenCompletion ==
    /\ Len(ot.span.add_event) = 2 * Len(WithSpan)
    /\ \A k \in 1..Len(WithSpan) :
          WithSpan[k].kind \in {"call_response", "stream"} =>
              LET first == ot.span.add_event[2 * k - 1]
                  second == ot.span.add_event[2 * k]
              IN  /\ first.name = "gen_ai.content.prompt"
                  /\ first.attributes.gen_ai_prompt =
                        JsonDumps(WithSpan[k].given.user_message_param)
                  /\ second.name = "gen_ai.content.completion"
                  /\ second.attributes.gen_ai_completion =
                        JsonDumps(WithSpan[k].given.message_param)
    /\ \A k \in 1..Len(ot.handled) :
          ot.handled[k].result = ot.handled[k].given

\* The stream handler was given the span and the result of the tests: the
\* prompt event carries {"role": "user", "content": "user_content"}.
C24_Witness ==
    /\ Len(ot.handled) = 1
    /\ ot.handled[1].kind = "stream"
    /\ ot.handled[1].given.user_message_param = UserContent
    /\ Len(ot.span.add_event) = 2
    /\ ot.span.add_event[1].attributes.gen_ai_prompt =
          <<"{", "\"", "role", "\"", ": ", "\"", "user", "\"", ", ",
            "\"", "content", "\"", ": ", "\"", "user_content", "\"", "}">>
    /\ ot.span.add_event[2].name = "gen_ai.content.completion"

\* The completion or extraction of a traced call, or the building of its
\* success trace, raised.
TracedCallFailed(t) ==
    \/ t.outcome.raised
    \/ ~TraceOutputs(wb.prompt[1], t.outcome.value).ok

C29_OneChildPerCall ==
    /\ Len(wb.parent.children) = Len(wb.traced)
    /\ \A k \in 1..Len(wb.traced) :
          Some(wb.parent.children[k]) = wb.traced[k].result.trace

\* An extraction that returned a model, then a completion without usage,
\* which failed while the success trace was built: two children.
C29_Witness ==
    /\ Len(wb.traced) = 2
    /\ wb.traced[1].op = "extract_with_trace"
    /\ wb.traced[1].result.trace[1].status_code = "success"
    /\ wb.traced[2].op = "create_with_trace"
    /\ wb.traced[2].outcome =
          [raised |-> FALSE,
           value |-> [type |-> "OpenAIChatCompletion", completion |-> C_noUsage]]
    /\ wb.traced[2].result.trace[1].status_code = "error"
    /\ Len(wb.parent.children) = 2

\* C26: when create or stream is given a Prompt instance, the request uses
\* the model of the prompt's call params, whatever model the constructor was
\* given, and the tools of the call params, when set, in place of the
\* `tools` argument.
C26_PromptCallParamsWin ==
    \A k \in 1..Len(chat.requests) :
        LET q == chat.requests[k]
        IN  q.prompt.isPrompt =>
              /\ q.model = q.prompt.model
              /\ q.prompt.tools # None =>
                    q.tools = Some([j \in 1..Len(q.prompt.tools[1]) |->
                                      [openai_tool |-> q.prompt.tools[1][j]]])

\* An object constructed with "gpt-4-turbo" streamed a Prompt with model
\* "gpt-4" and its own tools while a `tools` argument was passed.
C26_Witness ==
    /\ chat.constructed = Some("gpt-4-turbo")
    /\ Len(chat.requests) = 1
    /\ chat.requests[1].op = "stream"
    /\ chat.requests[1].prompt =
          [isPrompt |-> TRUE, model |-> "gpt-4", tools |-> Some(<<"PromptTool">>)]
    /\ chat.requests[1].tools_arg = Some(<<"ArgTool">>)
    /\ chat.requests[1].model = "gpt-4"
    /\ chat.requests[1].tools = Some(<<[openai_tool |-> "PromptTool"]>>)

\* C27: iterating a BaseStream yields one item per chunk of the underlying
\* sequence, in the same order, each paired with tool None; with an output
\* parser the item is the parser's output for that chunk; the accumulated
\* content and cost are those of the raw chunks, never of the parser's
\* output.
C27_OneItemPerChunk ==
    \A i \in Instances :
        LET st == streams[i]
        IN  /\ Len(st.yielded) = Len(st.delivered)
            /\ \A k \in 1..Len(st.yielded) :
                  /\ st.yielded[k][2] = None
                  /\ st.yielded[k][1] =
                        IF OutputParsers[i] = None THEN st.delivered[k]
                        ELSE [parsed_by |-> OutputParsers[i][1],
                              content |-> <<"*">>, cost |-> Some(0),
                              user_message_param |-> None]
            /\ st.cost = LastCost(st.delivered)
            /\ st.iterState = "suspended" =>
                  st.content = Some(ConcatContent(st.delivered))
            /\ st.iterState = "finished" =>
                  st.message_param[1].content = Some(ConcatContent(st.delivered))

\* The object with the parser has consumed "Hel" and a chunk with cost 5
\* to the end: two parser outputs were yielded, the message says "Hel" and
\* the cost is 5.
C27_Witness ==
    /\ streams[2].output_parser = Some("redact")
    /\ streams[2].delivered = <<K_Hel, K_u5>>
    /\ streams[2].iterState = "finished"
    /\ Len(streams[2].yielded) = 2
    /\ streams[2].yielded[1][1].parsed_by = "redact"
    /\ streams[2].cost = Some(5)
    /\ streams[2].message_param[1].content = Some(Hel)

\* C28: every retry of extract issues the request of the first attempt: the
\* same tool and forced tool choice, the same prompt and the keyword
\* arguments the caller passed to extract.
C28_Original ==
    \A k \in 1..Len(ex.calls) :
        /\ ex.calls[k].tools = ex.calls[1].tools
        /\ ex.calls[k].tool_choice = ex.calls[1].tool_choice
        /\ ex.calls[k].prompt = ex.calls[1].prompt
        /\ ex.calls[k].kwargs = ex.kwargs

\* C30: the async call wrapper awaits the user function, then sets up the
\* call, then issues exactly one non-streaming completion request; the
\* user_message_param of the returned response is the last message when its
\* role is "user" and None otherwise; its start_time was read before the
\* request and is not later than its end_time.
C30_AsyncCallOrder ==
    /\ Len(ac.requests) <= 1
    /\ \A k \in 1..Len(ac.requests) : ~ac.requests[k].stream
    /\ \E n \in 0..3 : ac.log = SubSeq(<<"fn", "setup_call", "create">>, 1, n)
    /\ ac.pc = "done" =>
          LET r == ac.response[1]
              last == r.messages[Len(r.messages)]
          IN  /\ ac.log = <<"fn", "setup_call", "create">>
              /\ Len(ac.requests) = 1
              /\ ac.requests[1].messages = r.messages
              /\ r.user_message_param =
                    IF last.role = "user" THEN Some(last) ELSE None
              /\ r.start_time <= ac.requests[1].issued_at
              /\ r.start_time <= r.end_time

\* The messages ended with the assistant's, the clock advanced while the
\* API was awaited: user_message_param is None and start_time < end_time.
C30_Witness ==
    /\ ac.pc = "done"
    /\ ac.response[1].messages = <<UserMsg, AssistantMsg>>
    /\ ac.response[1].user_message_param = None
    /\ ac.response[1].start_time = 1
    /\ ac.response[1].end_time = 3
    /\ Len(ac.requests) = 1

\* A recognizer of the JSON objects the argument buffers can spell: an object
\* of string keys and string values. State 9 accepts, -1 rejects.
JsonStep(q, ch) ==
    CASE q = 0 -> IF ch = "{" THEN 1 ELSE -1
      [] q = 1 -> IF ch = "}" THEN 9 ELSE IF ch = "\"" THEN 2 ELSE -1
      [] q = 2 -> IF ch = "\"" THEN 3 ELSE 2
      [] q = 3 -> IF ch = ":" THEN 4 ELSE -1
      [] q = 4 -> IF ch = "\"" THEN 5 ELSE -1
      [] q = 5 -> IF ch = "\"" THEN 6 ELSE 5
      [] q = 6 -> IF ch = "}" THEN 9 ELSE IF ch = "," THEN 7 ELSE -1
      [] q = 7 -> IF ch = "\"" THEN 2 ELSE -1
      [] OTHER -> -1

RECURSIVE JsonRun(_, _)
JsonRun(q, str) == IF str = <<>> THEN q ELSE JsonRun(JsonStep(q, Head(str)), Tail(str))

IsValidJson(str) == JsonRun(0, str) = 9

\* C18, as claimed: consuming chunks never raises a parse error, whatever the
\* argument buffers hold, and construct_call_response parses each slot's
\* buffer: a buffer that is not valid JSON makes it fail with
\* ToolCallArgumentsParseError.
C18_Original ==
    /\ outcome.op = "next" => outcome.kind # "ToolCallArgumentsParseError"
    /\ (/\ outcome.op = "build"
        /\ message_param # None
        /\ \A k \in 1..Len(toolCallSlots) : toolCallSlots[k].id # None
        /\ \E k \in 1..Len(Get(message_param[1], "tool_calls", <<>>)) :
              ~IsValidJson(message_param[1].tool_calls[k].arguments))
           => outcome.kind = "ToolCallArgumentsParseError"

====
